---- MODULE Spec2Model ----
(***************************************************************************)
(* A model of svg_translator.py: the command line run that validates the   *)
(* input paths, translates the text of every SVG file and writes one       *)
(* output file per input, and the paragraph re-flow heuristic              *)
(* (translate_split_paragraph) that redistributes a translated paragraph   *)
(* over the tspan elements of the original.                                *)
(*                                                                         *)
(* A Python str is a sequence of one-character strings.  The translation   *)
(* service is external: a call returns any string of a bounded set, or     *)
(* raises.  The texts of the model hold no hyphen and no sentence          *)
(* terminator, so textwrap splits them at white space only and the         *)
(* sentence tokenizer returns them as one sentence.                        *)
(***************************************************************************)
EXTENDS Integers, Sequences, FiniteSets, TLC

VARIABLES
    \* the command line run
    files,          \* args.files
    out_pattern,    \* args.out
    fs,             \* the file system: path -> [kind, doc]
    pc,             \* position of the run
    fnames,         \* the validated, sorted file list
    idx,            \* index of the current file in fnames
    tree,           \* the parsed document of the current file
    ti,             \* index of the current text element in text_list
    calls,          \* the texts passed to translate, in order
    failed,         \* index in fnames of the file in which translate raised, else 0
    error,          \* the exception that ended the run, "none" if none
    processed,      \* the paths handed to translate_file, in order
    written,        \* the output files written: [src, out], in order
    \* one call of translate_split_paragraph on its own
    paragraph,      \* the original text of each fragment
    phrases,        \* the translated sentences, joined
    wrapped,        \* what wrap returned
    translated_paragraph,   \* the list of lines when the call returns
    assigned,       \* child.text of each fragment
    rpc             \* position of the call

mainvars == <<files, out_pattern, fs, pc, fnames, idx, tree, ti, calls,
              failed, error, processed, written>>
reflowvars == <<paragraph, phrases, wrapped, translated_paragraph, assigned, rpc>>
vars == <<mainvars, reflowvars>>

(***************************************************************************)
(* Bounds of the model.                                                    *)
(***************************************************************************)
MaxFragLen == 2     \* longest fragment text of a re-flowed paragraph
MaxFrags == 2       \* most fragments of a re-flowed paragraph
MaxTransLen == 4    \* longest answer of the translation service
MaxRoundTripLen == 4    \* longest fragment text under the identity translation
MaxFiles == 3       \* most paths on the command line

(***************************************************************************)
(* Strings.                                                                *)
(***************************************************************************)
Max(a, b) == IF a >= b THEN a ELSE b

\* str.isspace for one character
IsSpace(c) == c \in {" ", "\t", "\n", "\r"}

\* s.strip() == ''
IsBlank(s) == \A i \in 1..Len(s) : IsSpace(s[i])

RECURSIVE LStrip(_)
LStrip(s) == IF s # <<>> /\ IsSpace(Head(s)) THEN LStrip(Tail(s)) ELSE s

RECURSIVE RStrip(_)
RStrip(s) ==
    IF s # <<>> /\ IsSpace(s[Len(s)]) THEN RStrip(SubSeq(s, 1, Len(s) - 1)) ELSE s

\* str.strip()
Strip(s) == LStrip(RStrip(s))

\* sep.join(parts)
RECURSIVE Join(_, _)
Join(parts, sep) ==
    IF parts = <<>> THEN <<>>
    ELSE IF Len(parts) = 1 THEN parts[1]
    ELSE parts[1] \o sep \o Join(Tail(parts), sep)

UPPERCASE ==
    <<"A", "B", "C", "D", "E", "F", "G", "H", "I", "J", "K", "L", "M",
      "N", "O", "P", "Q", "R", "S", "T", "U", "V", "W", "X", "Y", "Z">>
LOWERCASE ==
    <<"a", "b", "c", "d", "e", "f", "g", "h", "i", "j", "k", "l", "m",
      "n", "o", "p", "q", "r", "s", "t", "u", "v", "w", "x", "y", "z">>

LowerChar(c) ==
    IF \E i \in 1..26 : UPPERCASE[i] = c
    THEN LOWERCASE[CHOOSE i \in 1..26 : UPPERCASE[i] = c]
    ELSE c

\* str.lower()
Lower(s) == [i \in 1..Len(s) |-> LowerChar(s[i])]

\* all strings over alphabet of length 0..n
StringsUpTo(alphabet, n) == UNION {[1..k -> alphabet] : k \in 0..n}

(***************************************************************************)
(* textwrap.wrap(text, width, replace_whitespace=True), with the defaults  *)
(* drop_whitespace and break_long_words.                                   *)
(***************************************************************************)
\* TextWrapper._munge_whitespace: every white space character becomes a space
Munge(text) == [i \in 1..Len(text) |-> IF IsSpace(text[i]) THEN " " ELSE text[i]]

\* TextWrapper._split: the maximal runs of white space and of other characters
RECURSIVE SplitChunks(_, _)
SplitChunks(text, cur) ==
    IF text = <<>> THEN (IF cur = <<>> THEN <<>> ELSE <<cur>>)
    ELSE IF cur = <<>> \/ (IsSpace(Head(text)) <=> IsSpace(cur[1]))
         THEN SplitChunks(Tail(text), Append(cur, Head(text)))
         ELSE <<cur>> \o SplitChunks(Tail(text), <<Head(text)>>)

\* the inner loop of _wrap_chunks: take the chunks that fit into the line
RECURSIVE TakeFit(_, _, _, _)
TakeFit(chunks, cur_line, cur_len, width) ==
    IF chunks # <<>> /\ cur_len + Len(Head(chunks)) <= width
    THEN TakeFit(Tail(chunks), Append(cur_line, Head(chunks)),
                 cur_len + Len(Head(chunks)), width)
    ELSE [chunks |-> chunks, cur_line |-> cur_line, cur_len |-> cur_len]

\* TextWrapper._handle_long_word with break_long_words
HandleLongWord(chunks, cur_line, cur_len, width) ==
    LET space_left == IF width < 1 THEN 1 ELSE width - cur_len
        chunk == Head(chunks)
    IN  [chunks |-> <<SubSeq(chunk, space_left + 1, Len(chunk))>> \o Tail(chunks),
         cur_line |-> Append(cur_line, SubSeq(chunk, 1, space_left)),
         cur_len |-> cur_len + space_left]

\* TextWrapper._wrap_chunks, for width > 0
RECURSIVE WrapChunks(_, _, _)
WrapChunks(chunks, width, lines) ==
    IF chunks = <<>> THEN lines
    ELSE
      LET c0 == IF IsBlank(Head(chunks)) /\ lines # <<>> THEN Tail(chunks) ELSE chunks
          f == TakeFit(c0, <<>>, 0, width)
          h == IF f.chunks # <<>> /\ Len(Head(f.chunks)) > width
               THEN HandleLongWord(f.chunks, f.cur_line, f.cur_len, width)
               ELSE f
          cl == IF h.cur_line # <<>> /\ IsBlank(h.cur_line[Len(h.cur_line)])
                THEN SubSeq(h.cur_line, 1, Len(h.cur_line) - 1)
                ELSE h.cur_line
      IN  WrapChunks(h.chunks, width,
                     IF cl # <<>> THEN Append(lines, Join(cl, <<>>)) ELSE lines)

\* wrap raises ValueError("invalid width") when width <= 0
WrapRaises(width) == width <= 0

Wrap(text, width) == WrapChunks(SplitChunks(Munge(text), <<>>), width, <<>>)

(***************************************************************************)
(* translate_split_paragraph.  A paragraph is the sequence of the original *)
(* texts of its fragments, in document order; the element of fragment i is *)
(* position i.                                                             *)
(***************************************************************************)
RECURSIVE MaxLenOf(_)
MaxLenOf(texts) ==
    IF Len(texts) = 1 THEN Len(texts[1])
    ELSE Max(Len(texts[1]), MaxLenOf(Tail(texts)))

\* max_size = max([len(text) for (child, text) in paragraph])
MaxSize(par) == MaxLenOf(par)

\* a mutant of RawParagraph: the fragments joined without the space
RawParagraphUnspaced(par) == Join([i \in 1..Len(par) |-> Strip(par[i])], <<>>)

\* raw_paragraph = ' '.join([text.strip() for (child, text) in paragraph])
RawParagraph(par) == Join([i \in 1..Len(par) |-> Strip(par[i])], <<" ">>)

CREATIVE_COMMONS ==
    <<"c", "r", "e", "a", "t", "i", "v", "e", " ", "c", "o", "m", "m", "o", "n", "s">>

\* raw_paragraph.lower() == 'creative commons'
IsCreativeCommons(par) == Lower(RawParagraph(par)) = CREATIVE_COMMONS

\* nltk.sent_tokenize on a text without sentence terminators: the text without
\* its trailing white space as one sentence, and no sentence when nothing is left
SentTokenize(raw) == IF RStrip(raw) = <<>> THEN <<>> ELSE <<RStrip(raw)>>

\* what translate may return for the sentences: one answer each, any of answers
\* or the sentence itself
Translations(sents, answers) ==
    {f \in [1..Len(sents) -> answers \cup {sents[i] : i \in 1..Len(sents)}] :
        \A i \in 1..Len(sents) : f[i] \in answers \cup {sents[i]}}

\* the wrap width: max_size - 1
WrapWidth(par) == MaxSize(par) - 1

\* a mutant of Reconcile: the padding goes in front of the lines
ReconcilePadsFront(tp, size) ==
    IF Len(tp) < size THEN [i \in 1..(size - Len(tp)) |-> <<>>] \o tp ELSE tp

\* a mutant of Reconcile: only the last two lines are joined
ReconcileJoinsLastTwo(tp, size) ==
    IF Len(tp) > size
    THEN SubSeq(tp, 1, Len(tp) - 2)
         \o <<Join(<<tp[Len(tp) - 1], tp[Len(tp)]>>, <<" ">>)>>
    ELSE IF Len(tp) < size
    THEN tp \o [i \in 1..(size - Len(tp)) |-> <<>>]
    ELSE tp

\* lines 76-91: make the wrapped lines as many as the fragments
Reconcile(tp, size) ==
    LET new_size == Len(tp)
    IN  IF new_size > size
        THEN LET diff == new_size - size
                 popped == [i \in 1..diff |-> tp[new_size - i + 1]]
                 tail == Join(popped, <<" ">>)
                 rest == SubSeq(tp, 1, new_size - diff)
             IN  [rest EXCEPT ![Len(rest)] = Join(<<rest[Len(rest)], tail>>, <<" ">>)]
        ELSE IF new_size < size
        THEN tp \o [i \in 1..(size - new_size) |-> <<>>]
        ELSE tp

\* lines 93-95: zip(paragraph, translated_paragraph) stops at the shorter one
Assign(texts, lines) ==
    [i \in 1..Len(texts) |-> IF i <= Len(lines) THEN lines[i] ELSE texts[i]]

(***************************************************************************)
(* One call of translate_split_paragraph on a paragraph that translate_file*)
(* can collect: two or more fragments, each a non-empty text without       *)
(* invalid characters.                                                     *)
(***************************************************************************)
FragAlphabet == {"a", " "}
TransAlphabet == {"a", "b", " "}

FragTexts == StringsUpTo(FragAlphabet, MaxFragLen) \ {<<>>}

CCParagraphs ==
    { << <<"C", "r", "e", "a", "t", "i", "v", "e">>,
         <<"C", "o", "m", "m", "o", "n", "s">> >>,
      << <<"C", "R", "E", "A", "T", "I", "V", "E", " ">>,
         <<" ", "c", "o", "m", "m", "o", "n", "s">> >> }

ReflowParagraphs ==
    UNION {[1..n -> FragTexts] : n \in 2..MaxFrags} \cup CCParagraphs

ReflowAnswers == StringsUpTo(TransAlphabet, MaxTransLen)

IdleMain ==
    /\ files = <<>> /\ out_pattern = <<>> /\ fs = <<>> /\ pc = "idle"
    /\ fnames = <<>> /\ idx = 0 /\ tree = <<>> /\ ti = 0 /\ calls = <<>>
    /\ failed = 0 /\ error = "none" /\ processed = <<>> /\ written = <<>>

InitReflow ==
    /\ IdleMain
    /\ paragraph \in ReflowParagraphs
    /\ phrases = <<>>
    /\ wrapped = <<>>
    /\ translated_paragraph = <<>>
    /\ assigned = paragraph
    /\ rpc = "call"

\* lines 64-66: the special case returns before anything is translated
R_Skip ==
    /\ rpc = "call"
    /\ IsCreativeCommons(paragraph)
    /\ rpc' = "skipped"
    /\ UNCHANGED <<paragraph, phrases, wrapped, translated_paragraph, assigned, mainvars>>

\* line 72: a translate call raises
R_TranslateRaises ==
    /\ rpc = "call"
    /\ ~IsCreativeCommons(paragraph)
    /\ SentTokenize(RawParagraph(paragraph)) # <<>>
    /\ rpc' = "raised"
    /\ UNCHANGED <<paragraph, phrases, wrapped, translated_paragraph, assigned, mainvars>>

\* lines 71-74 with a width that textwrap refuses
WrapRaisesStep(answers) ==
    /\ rpc = "call"
    /\ ~IsCreativeCommons(paragraph)
    /\ WrapRaises(WrapWidth(paragraph))
    /\ \E ans \in Translations(SentTokenize(RawParagraph(paragraph)), answers) :
           phrases' = Join(ans, <<" ">>)
    /\ rpc' = "ValueError"
    /\ UNCHANGED <<paragraph, wrapped, translated_paragraph, assigned, mainvars>>

\* lines 71-96: translate every sentence, join, wrap, reconcile, assign
ReflowStep(answers) ==
    /\ rpc = "call"
    /\ ~IsCreativeCommons(paragraph)
    /\ ~WrapRaises(WrapWidth(paragraph))
    /\ \E ans \in Translations(SentTokenize(RawParagraph(paragraph)), answers) :
           phrases' = Join(ans, <<" ">>)
    /\ wrapped' = Wrap(phrases', WrapWidth(paragraph))
    /\ translated_paragraph' = Reconcile(wrapped', Len(paragraph))
    /\ assigned' = Assign(paragraph, translated_paragraph')
    /\ rpc' = "returned"
    /\ UNCHANGED <<paragraph, mainvars>>

R_WrapRaises == WrapRaisesStep(ReflowAnswers)

R_Reflow == ReflowStep(ReflowAnswers)

NextReflow ==
    \/ R_Skip
    \/ R_TranslateRaises
    \/ R_WrapRaises
    \/ R_Reflow

SpecReflow == InitReflow /\ [][NextReflow]_vars

(***************************************************************************)
(* The same call with a translation function that is the identity, on      *)
(* longer fragments.                                                       *)
(***************************************************************************)
RoundTripTexts == StringsUpTo(FragAlphabet, MaxRoundTripLen) \ {<<>>}

RoundTripParagraphs ==
    UNION {[1..n -> RoundTripTexts] : n \in 2..MaxFrags} \cup CCParagraphs

InitRoundTrip ==
    /\ IdleMain
    /\ paragraph \in RoundTripParagraphs
    /\ phrases = <<>>
    /\ wrapped = <<>>
    /\ translated_paragraph = <<>>
    /\ assigned = paragraph
    /\ rpc = "call"

RT_WrapRaises == WrapRaisesStep({})

RT_Reflow == ReflowStep({})

NextRoundTrip ==
    \/ R_Skip
    \/ RT_WrapRaises
    \/ RT_Reflow

SpecRoundTrip == InitRoundTrip /\ [][NextRoundTrip]_vars

(***************************************************************************)
(* Paths and the file system.                                              *)
(***************************************************************************)
\* the characters of the paths of the model, in code point order
CODE_POINTS == <<".", "/", "_">> \o LOWERCASE

Ord(c) == CHOOSE i \in 1..Len(CODE_POINTS) : CODE_POINTS[i] = c

\* a < b for two str
RECURSIVE StrLess(_, _)
StrLess(a, b) ==
    IF b = <<>> THEN FALSE
    ELSE IF a = <<>> THEN TRUE
    ELSE IF Head(a) = Head(b) THEN StrLess(Tail(a), Tail(b))
    ELSE Ord(Head(a)) < Ord(Head(b))

\* list.sort(): stable, ascending
RECURSIVE InsertSorted(_, _)
InsertSorted(sorted, x) ==
    IF sorted = <<>> THEN <<x>>
    ELSE IF StrLess(x, Head(sorted)) THEN <<x>> \o sorted
    ELSE <<Head(sorted)>> \o InsertSorted(Tail(sorted), x)

RECURSIVE Sort(_)
Sort(list) ==
    IF list = <<>> THEN <<>>
    ELSE InsertSorted(Sort(SubSeq(list, 1, Len(list) - 1)), list[Len(list)])

\* s.rfind(c), counted from 1; 0 when c is not in s
RFind(s, c) ==
    IF \E i \in 1..Len(s) : s[i] = c
    THEN CHOOSE i \in 1..Len(s) : s[i] = c /\ \A j \in (i + 1)..Len(s) : s[j] # c
    ELSE 0

\* str.endswith
EndsWith(s, suffix) ==
    /\ Len(s) >= Len(suffix)
    /\ SubSeq(s, Len(s) - Len(suffix) + 1, Len(s)) = suffix

\* os.path.basename
Basename(path) == SubSeq(path, RFind(path, "/") + 1, Len(path))

\* os.path.dirname: the head up to the last slash, without trailing slashes
\* unless it is all slashes
Dirname(path) ==
    LET head == SubSeq(path, 1, RFind(path, "/"))
    IN  IF head # <<>> /\ \E k \in 1..Len(head) : head[k] # "/"
        THEN LET last == CHOOSE k \in 1..Len(head) :
                             head[k] # "/" /\ \A j \in (k + 1)..Len(head) : head[j] = "/"
             IN  SubSeq(head, 1, last)
        ELSE head

\* os.path.splitext of a base name: the extension starts at the last dot, unless
\* only dots precede it
Splitext(name) ==
    LET dot == RFind(name, ".")
    IN  IF dot > 0 /\ \E k \in 1..(dot - 1) : name[k] # "."
        THEN <<SubSeq(name, 1, dot - 1), SubSeq(name, dot, Len(name))>>
        ELSE <<name, <<>>>>

\* os.path.join(a, b)
JoinPath(a, b) ==
    IF b # <<>> /\ b[1] = "/" THEN b
    ELSE IF a = <<>> \/ a[Len(a)] = "/" THEN a \o b
    ELSE a \o <<"/">> \o b

\* out_pattern.format(filename=..., extension=...): a pattern is a sequence of
\* characters and of the two replacement fields
RECURSIVE Format(_, _, _)
Format(pattern, filename, extension) ==
    IF pattern = <<>> THEN <<>>
    ELSE (IF Head(pattern) = "{filename}" THEN filename
          ELSE IF Head(pattern) = "{extension}" THEN extension
          ELSE <<Head(pattern)>>) \o Format(Tail(pattern), filename, extension)

\* a mutant of get_out_name: the directory of the input is not joined
GetOutNameNoDir(fname, pattern) ==
    LET parts == Splitext(Basename(fname))
    IN  Format(pattern, parts[1], parts[2])

\* get_out_name
GetOutName(fname, pattern) ==
    LET path == Dirname(fname)
        parts == Splitext(Basename(fname))
    IN  JoinPath(path, Format(pattern, parts[1], parts[2]))

\* os.path.exists, os.path.isfile
Exists(f, fname) == fname \in DOMAIN f
IsFile(f, fname) == fname \in DOMAIN f /\ f[fname].kind = "file"

\* validate_file: None counts as False
ValidateFile(f, fname) ==
    IF ~Exists(f, fname) THEN FALSE
    ELSE IF ~EndsWith(fname, <<"s", "v", "g">>) THEN FALSE
    ELSE IF IsFile(f, fname) THEN TRUE
    ELSE FALSE

(***************************************************************************)
(* Documents.  A document is the sequence of its text elements in document *)
(* order (get_text_tags); a text element has its own text and its child    *)
(* elements, each a tspan or not, with its text.  The empty string stands  *)
(* for no text as well: both are false for "if child.text".                *)
(***************************************************************************)
INVALID_TEXT == {"<", ">", "^", "*", "="}

\* INVALID_TEXT.match(text): the pattern is tried at the start of the text only
InvalidMatch(text) == text # <<>> /\ text[1] \in INVALID_TEXT

\* INVALID_TEXT.findall(text): a match anywhere
InvalidFindall(text) == \E k \in 1..Len(text) : text[k] \in INVALID_TEXT

\* lines 134-152: the positions of the children that make the paragraph
RECURSIVE CollectFrom(_, _)
CollectFrom(children, k) ==
    IF k > Len(children) THEN <<>>
    ELSE (IF /\ children[k].tspan
             /\ children[k].text # <<>>
             /\ ~InvalidFindall(children[k].text)
          THEN <<k>> ELSE <<>>) \o CollectFrom(children, k + 1)

Collect(children) == CollectFrom(children, 1)

\* the texts of the collected paragraph of a text element
ParagraphTexts(elem) ==
    LET at == Collect(elem.children)
    IN  [k \in 1..Len(at) |-> elem.children[at[k]].text]

\* child.text = line, for the collected children in order
SetTexts(elem, lines) ==
    LET at == Collect(elem.children)
    IN  [elem EXCEPT !.children =
            [c \in 1..Len(elem.children) |->
                IF \E k \in 1..Len(at) : at[k] = c
                THEN [elem.children[c] EXCEPT
                         !.text = lines[CHOOSE k \in 1..Len(at) : at[k] = c]]
                ELSE elem.children[c]]]

Tspan(text) == [tspan |-> TRUE, text |-> text]
Other(text) == [tspan |-> FALSE, text |-> text]
TextElem(text, children) == [text |-> text, children |-> children]

DocA ==
    << TextElem(<<"h", "i">>, <<>>),
       TextElem(<<"<", "a">>, <<>>),
       TextElem(<<"a", "<", "b">>, <<>>),
       TextElem(<<>>, << Tspan(<<"a", "=", "b">>), Other(<<"t">>),
                         Tspan(<<"h", "i">>), Tspan(<<>>) >>) >>

DocB ==
    << TextElem(<<>>, << Tspan(<<"a">>), Tspan(<<"b">>) >>) >>

DocC ==
    << TextElem(<<>>, << Tspan(<<"C", "r", "e", "a", "t", "i", "v", "e">>),
                         Tspan(<<"C", "o", "m", "m", "o", "n", "s">>) >>),
       TextElem(<<>>, << Tspan(<<"C", "r", "e", "a", "t", "i", "v", "e", " ",
                                 "C", "o", "m", "m", "o", "n", "s">>) >>),
       TextElem(<<>>, << Tspan(<<"a", "a", " ">>), Tspan(<<"b">>) >>) >>

DocX == << TextElem(<<"h", "i">>, <<>>) >>

A_SVG == <<"a", ".", "s", "v", "g">>
B_SVG == <<"b", ".", "s", "v", "g">>
D_C_SVG == <<"d", "/", "c", ".", "s", "v", "g">>
E_SVG == <<"e", ".", "s", "v", "g">>
M_SVG == <<"m", ".", "s", "v", "g">>
N_TXT == <<"n", ".", "t", "x", "t">>
XSVG == <<"x", "s", "v", "g">>

File(doc) == [kind |-> "file", doc |-> doc]
Dir == [kind |-> "dir", doc |-> <<>>]

\* the file system when the run starts; m.svg does not exist
InitialFs ==
    (A_SVG :> File(DocA)) @@ (B_SVG :> File(DocB)) @@ (D_C_SVG :> File(DocC))
    @@ (XSVG :> File(DocX)) @@ (N_TXT :> File(DocX))
    @@ (E_SVG :> Dir) @@ (<<"d">> :> Dir)

InputPaths == {A_SVG, B_SVG, D_C_SVG, E_SVG, M_SVG, N_TXT, XSVG}

\* line 206: the default of --out
DEFAULT_PATTERN ==
    <<"{filename}", "_", "t", "r", "a", "n", "s", "l", "a", "t", "e", "d", "{extension}">>

Patterns ==
    { DEFAULT_PATTERN,
      <<"{filename}", "{extension}">> }

\* the answers of the translation service during a run
MainAnswers == { <<"x", " ", "y">> }

\* a mutant of Propagate: the exception is swallowed and the file is written
Swallow == "write"

\* an exception that nothing catches ends the run (lines 117-172, 265-266)
Propagate == "crashed"

(***************************************************************************)
(* The run.                                                                *)
(***************************************************************************)
IdleReflow ==
    /\ paragraph = <<>> /\ phrases = <<>> /\ wrapped = <<>>
    /\ translated_paragraph = <<>> /\ assigned = <<>> /\ rpc = "idle"

Init ==
    /\ IdleReflow
    /\ files \in UNION {[1..n -> InputPaths] : n \in 1..MaxFiles}
    /\ out_pattern \in Patterns
    /\ fs = InitialFs
    /\ pc = "start"
    /\ fnames = <<>>
    /\ idx = 1
    /\ tree = <<>>
    /\ ti = 1
    /\ calls = <<>>
    /\ failed = 0
    /\ error = "none"
    /\ processed = <<>>
    /\ written = <<>>

\* lines 258-263: keep the valid paths, sort them
Validate ==
    /\ pc = "start"
    /\ fnames' = Sort(SelectSeq(files, LAMBDA f : ValidateFile(fs, f)))
    /\ pc' = "loop"
    /\ UNCHANGED <<files, out_pattern, fs, idx, tree, ti, calls, failed, error,
                   processed, written, reflowvars>>

\* lines 265-266, 118-120: translate_file starts on the next file and parses it
NextFile ==
    /\ pc = "loop"
    /\ idx <= Len(fnames)
    /\ processed' = Append(processed, fnames[idx])
    /\ tree' = fs[fnames[idx]].doc
    /\ ti' = 1
    /\ pc' = IF tree' = <<>> THEN "write" ELSE "text"
    /\ UNCHANGED <<files, out_pattern, fs, fnames, idx, calls, failed, error,
                   written, reflowvars>>

\* line 267: no file is left
Quit ==
    /\ pc = "loop"
    /\ idx > Len(fnames)
    /\ pc' = "done"
    /\ UNCHANGED <<files, out_pattern, fs, fnames, idx, tree, ti, calls, failed,
                   error, processed, written, reflowvars>>

\* a translate call raises: nothing catches it
Raise(texts, exc) ==
    /\ calls' = calls \o texts
    /\ failed' = IF exc = "translate" THEN idx ELSE failed
    /\ error' = exc
    /\ pc' = Propagate
    /\ UNCHANGED <<files, out_pattern, fs, fnames, idx, tree, ti, processed,
                   written, reflowvars>>

\* lines 122-129: the text of the text element itself is empty or invalid
TextSkip ==
    /\ pc = "text"
    /\ tree[ti].text = <<>> \/ InvalidMatch(tree[ti].text)
    /\ pc' = "children"
    /\ UNCHANGED <<files, out_pattern, fs, fnames, idx, tree, ti, calls, failed,
                   error, processed, written, reflowvars>>

\* lines 122-127: the text of the text element itself is translated
TextTranslate ==
    /\ pc = "text"
    /\ tree[ti].text # <<>> /\ ~InvalidMatch(tree[ti].text)
    /\ \E ans \in Translations(<<tree[ti].text>>, MainAnswers) :
           tree' = [tree EXCEPT ![ti].text = ans[1]]
    /\ calls' = Append(calls, tree[ti].text)
    /\ pc' = "children"
    /\ UNCHANGED <<files, out_pattern, fs, fnames, idx, ti, failed, error,
                   processed, written, reflowvars>>

\* line 125 raises
TextTranslateRaises ==
    /\ pc = "text"
    /\ tree[ti].text # <<>> /\ ~InvalidMatch(tree[ti].text)
    /\ Raise(<<tree[ti].text>>, "translate")

\* after the children of a text element: the next text element, or the output
Advance ==
    /\ ti' = ti + 1
    /\ pc' = IF ti < Len(tree) THEN "text" ELSE "write"

\* lines 131-164 when no child is collected, or the paragraph is the special case
ChildrenSkip ==
    /\ pc = "children"
    /\ \/ Len(ParagraphTexts(tree[ti])) = 0
       \/ /\ Len(ParagraphTexts(tree[ti])) > 1
          /\ IsCreativeCommons(ParagraphTexts(tree[ti]))
    /\ Advance
    /\ UNCHANGED <<files, out_pattern, fs, fnames, idx, tree, calls, failed,
                   error, processed, written, reflowvars>>

\* lines 154-158: a paragraph of one fragment is translated as it is
ChildrenSingle ==
    /\ pc = "children"
    /\ Len(ParagraphTexts(tree[ti])) = 1
    /\ \E ans \in Translations(ParagraphTexts(tree[ti]), MainAnswers) :
           tree' = [tree EXCEPT ![ti] = SetTexts(tree[ti], ans)]
    /\ calls' = calls \o ParagraphTexts(tree[ti])
    /\ Advance
    /\ UNCHANGED <<files, out_pattern, fs, fnames, idx, failed, error, processed,
                   written, reflowvars>>

\* line 157 raises
ChildrenSingleRaises ==
    /\ pc = "children"
    /\ Len(ParagraphTexts(tree[ti])) = 1
    /\ Raise(ParagraphTexts(tree[ti]), "translate")

\* lines 160-164: translate_split_paragraph returns
ChildrenReflow ==
    /\ pc = "children"
    /\ Len(ParagraphTexts(tree[ti])) > 1
    /\ LET par == ParagraphTexts(tree[ti])
           sents == SentTokenize(RawParagraph(par))
       IN  /\ ~IsCreativeCommons(par)
           /\ ~WrapRaises(WrapWidth(par))
           /\ \E ans \in Translations(sents, MainAnswers) :
                  tree' = [tree EXCEPT ![ti] =
                      SetTexts(tree[ti],
                          Assign(par, Reconcile(Wrap(Join(ans, <<" ">>), WrapWidth(par)),
                                                Len(par))))]
           /\ calls' = calls \o sents
    /\ Advance
    /\ UNCHANGED <<files, out_pattern, fs, fnames, idx, failed, error, processed,
                   written, reflowvars>>

\* line 72 raises
ChildrenReflowRaises ==
    /\ pc = "children"
    /\ Len(ParagraphTexts(tree[ti])) > 1
    /\ ~IsCreativeCommons(ParagraphTexts(tree[ti]))
    /\ SentTokenize(RawParagraph(ParagraphTexts(tree[ti]))) # <<>>
    /\ Raise(SubSeq(SentTokenize(RawParagraph(ParagraphTexts(tree[ti]))), 1, 1),
             "translate")

\* line 74 raises ValueError after the sentences were translated
ChildrenWrapRaises ==
    /\ pc = "children"
    /\ Len(ParagraphTexts(tree[ti])) > 1
    /\ ~IsCreativeCommons(ParagraphTexts(tree[ti]))
    /\ WrapRaises(WrapWidth(ParagraphTexts(tree[ti])))
    /\ Raise(SentTokenize(RawParagraph(ParagraphTexts(tree[ti]))), "ValueError")

\* lines 166-172: the tree is written to the output file
WriteOutput ==
    /\ pc = "write"
    /\ LET out_name == GetOutName(fnames[idx], out_pattern)
       IN  /\ fs' = [p \in DOMAIN fs \cup {out_name} |->
                        IF p = out_name THEN File(tree) ELSE fs[p]]
           /\ written' = Append(written, [src |-> fnames[idx], out |-> out_name])
    /\ idx' = idx + 1
    /\ pc' = "loop"
    /\ UNCHANGED <<files, out_pattern, fnames, tree, ti, calls, failed, error,
                   processed, reflowvars>>

Next ==
    \/ Validate
    \/ NextFile
    \/ Quit
    \/ TextSkip
    \/ TextTranslate
    \/ TextTranslateRaises
    \/ ChildrenSkip
    \/ ChildrenSingle
    \/ ChildrenSingleRaises
    \/ ChildrenReflow
    \/ ChildrenReflowRaises
    \/ ChildrenWrapRaises
    \/ WriteOutput

Spec == Init /\ [][Next]_vars

(***************************************************************************)
(* Properties of translate_split_paragraph.                                *)
(***************************************************************************)
\* the words of a text: its maximal runs of characters that are not white space
Words(s) == SelectSeq(SplitChunks(Munge(s), <<>>), LAMBDA c : ~IsBlank(c))

\* white space normalisation: stripped, every run of white space one space
Normalize(s) == Join(Words(s), <<" ">>)

\* the translation function was the identity: every sentence came back unchanged
IdentityTranslation ==
    phrases = Join(SentTokenize(RawParagraph(paragraph)), <<" ">>)

\* the longest fragment, stripped
MaxStrippedLen(par) == MaxLenOf([i \in 1..Len(par) |-> Strip(par[i])])

\* C1: when the wrapped translation has n + k lines, k >= 1, for n fragments, the
\* result has n lines, the first n - 1 are the first n - 1 wrapped lines, and the
\* last is wrapped lines n .. n + k joined by spaces in the order of the wrap.
C1_MergeInWrapOrder ==
    (rpc = "returned" /\ Len(wrapped) > Len(paragraph)) =>
        LET n == Len(paragraph)
        IN  /\ Len(translated_paragraph) = n
            /\ \A i \in 1..(n - 1) : assigned[i] = wrapped[i]
            /\ assigned[n] = Join(SubSeq(wrapped, n, Len(wrapped)), <<" ">>)

\* C2: when the wrapped translation has n - k lines, 1 <= k <= n, the first n - k
\* elements receive the wrapped lines in order and the last k the empty string.
C2_PadWithEmpty ==
    (rpc = "returned" /\ Len(wrapped) < Len(paragraph)) =>
        /\ \A i \in 1..Len(wrapped) : assigned[i] = wrapped[i]
        /\ \A i \in (Len(wrapped) + 1)..Len(paragraph) : assigned[i] = <<>>

C2_Witness ==
    /\ rpc = "returned"
    /\ Len(wrapped) = Len(paragraph) - 1
    /\ assigned[1] # <<>>
    /\ assigned[Len(paragraph)] = <<>>
    /\ paragraph[Len(paragraph)] # <<>>

\* C3: when the call returns, there are as many lines as fragments and element i
\* holds line i: no element is left out and no line is dropped.
C3_OneLinePerFragment ==
    (rpc = "returned") =>
        /\ Len(translated_paragraph) = Len(paragraph)
        /\ Len(assigned) = Len(paragraph)
        /\ \A i \in 1..Len(paragraph) : assigned[i] = translated_paragraph[i]

C3_Witness ==
    /\ rpc = "returned"
    /\ Len(wrapped) > Len(paragraph) + 1
    /\ Len(translated_paragraph) = Len(paragraph)

Original == fs[fnames[idx]].doc

InFile == pc \in {"text", "children", "write"}

\* C4: a text with one of < > ^ * = anywhere in it is never passed to translate
\* and is left unchanged, be it the text of a text element or of a tspan child.
C4_InvalidNeverTranslated ==
    /\ \A i \in 1..Len(calls) : ~InvalidFindall(calls[i])
    /\ InFile =>
          \A j \in 1..Len(tree) :
              /\ InvalidFindall(Original[j].text) => tree[j].text = Original[j].text
              /\ \A c \in 1..Len(tree[j].children) :
                    (Original[j].children[c].tspan
                        /\ InvalidFindall(Original[j].children[c].text))
                    => tree[j].children[c] = Original[j].children[c]

\* C5: a collected paragraph, of any number of fragments, whose raw text is
\* "creative commons" in any case is left unmodified and causes no translate call.
C5_CreativeCommonsUntouched ==
    [][(/\ pc = "children"
        /\ Len(ParagraphTexts(tree[ti])) >= 1
        /\ IsCreativeCommons(ParagraphTexts(tree[ti])))
       => (tree' = tree /\ calls' = calls)]_vars

\* C7: when a translate call raises in a file, the run ends there: the files
\* before it, and only they, have their output written, the file itself and the
\* files after it have none, and nothing more happens.
C7_FailureEndsRun ==
    (failed # 0) =>
        /\ error = "translate"
        /\ idx = failed
        /\ processed = SubSeq(fnames, 1, failed)
        /\ Len(written) = failed - 1
        /\ \A i \in 1..Len(written) :
              written[i].src = fnames[i] /\ IsFile(fs, written[i].out)
        /\ ~ENABLED Next

C7_Witness ==
    /\ failed = 2
    /\ Len(fnames) = 3
    /\ Len(written) = 1
    /\ tree # Original

\* the extension of the path is .svg
HasSvgExtension(fname) == Splitext(Basename(fname))[2] = <<".", "s", "v", "g">>

\* the paths of the command line that exist, are regular files and are .svg files
ValidInputs ==
    {files[i] : i \in {k \in 1..Len(files) :
        IsFile(InitialFs, files[k]) /\ HasSvgExtension(files[k])}}

\* C8: when the run ends without a translation failure, every valid path was
\* processed exactly once, in sorted order, and no other path was processed.
C8_EveryValidPathOnce ==
    ((pc = "done" \/ pc = "crashed") /\ failed = 0) =>
        /\ \A p \in ValidInputs :
              Cardinality({i \in 1..Len(processed) : processed[i] = p}) = 1
        /\ \A i \in 1..Len(processed) : processed[i] \in ValidInputs
        /\ \A i \in 1..(Len(processed) - 1) : StrLess(processed[i], processed[i + 1])

\* the pattern with the base name and the extension of the input substituted
Expansion(fname) ==
    Format(out_pattern, Splitext(Basename(fname))[1], Splitext(Basename(fname))[2])

\* the path up to and with its last slash
DirPrefix(fname) == SubSeq(fname, 1, RFind(fname, "/"))

C10_WrapWidthPositive ==
    /\ (pc = "children" /\ Len(ParagraphTexts(tree[ti])) > 1)
          => WrapWidth(ParagraphTexts(tree[ti])) >= 1
    /\ error # "ValueError"

====
